---- MODULE Spec2Model ----
(***************************************************************************)
(* Ticketing canister of akmalhisyammm/ticketing-system-icp.               *)
(*                                                                         *)
(* The repository holds two variants of the same canister:                 *)
(*   "index"    - src/src/index.ts                                         *)
(*   "part_000" - src/unnamed/part_000                                     *)
(* Both are run side by side on the same calls (same caller, same          *)
(* arguments, same host time, same generated identifiers), so that every   *)
(* property can be stated of each variant and the two can be compared.     *)
(*                                                                         *)
(* Text is a sequence of chunks; a chunk is the blank " " or a non-blank   *)
(* word.  Opt(T) is None (the empty sequence) or Some(x) (a one-element    *)
(* sequence).  A StableBTreeMap is a function from its keys to its values. *)
(***************************************************************************)
EXTENDS Naturals, Integers, Sequences, FiniteSets, TLC

VARIABLES userStorage, eventStorage, ticketStorage, transactionStorage,
          now, nextId

vars == <<userStorage, eventStorage, ticketStorage, transactionStorage,
          now, nextId>>

(***************************************************************************)
(* Bounds of the model.                                                    *)
(***************************************************************************)
\* The host clock runs from 1 to MaxTime.
MaxTime == 2
\* A run stores at most MaxEvents events, MaxTickets tickets and
\* MaxTransactions transactions in each variant.
MaxEvents == 1
MaxTickets == 2
MaxTransactions == 2
\* Prices range over 0..MaxPrice, payments over 0..MaxPrice + 1.
MaxPrice == 1

Variants == {"index", "part_000"}

\* The caller identities (Principals) of the model.
Principals == {"p1", "p2", "p3"}

(***************************************************************************)
(* Values of the azle library: Opt, text, StableBTreeMap.                  *)
(***************************************************************************)
None == <<>>

Some(x) == <<x>>

\* The text of one non-blank word.
Word(w) == <<w>>

containsKey(map, key) == key \in DOMAIN map

insert(map, key, value) ==
  [k \in (DOMAIN map) \cup {key} |-> IF k = key THEN value ELSE map[k]]

EmptyMap == [k \in {} |-> {}]

\* StableBTreeMap.values(): the stored values.  The Vec lists them in key
\* order; the model keeps which values are listed and not their order.
values(map) == {map[k] : k \in DOMAIN map}

\* The identifier the generator gives on its n-th use.
uuidv4(n) == Word(ToString(n))

USER_ROLE == {Word("organizer"), Word("participant")}

TICKET_ROLE == {Word("vvip"), Word("vip"), Word("regular")}

\* String.prototype.trim: drops the blanks at both ends.
RECURSIVE trimStart(_)
trimStart(str) ==
  IF str # <<>> /\ Head(str) = " " THEN trimStart(Tail(str)) ELSE str

RECURSIVE trimEnd(_)
trimEnd(str) ==
  IF str # <<>> /\ str[Len(str)] = " "
  THEN trimEnd(SubSeq(str, 1, Len(str) - 1))
  ELSE str

trim(str) == trimEnd(trimStart(str))

isStringEmpty(str) == Len(trim(str)) = 0

isUserExists(st, id) == containsKey(st.users, id)

isEventExists(st, id) == containsKey(st.events, id)

isTicketExists(st, id) == containsKey(st.tickets, id)

isUserOrganizer(st, id) == st.users[id].role = Word("organizer")

\* ownerId is an Opt's .Some: <<x>> when present, <<>> (undefined) when not;
\* undefined.toText() throws a TypeError.
isProductOwner(id, ownerId) ==
  IF ownerId = <<>> THEN "throws" ELSE IF id = ownerId[1] THEN "true" ELSE "false"

(***************************************************************************)
(* What a call gives back: the Result variant it returns, the stores it    *)
(* leaves, and how many identifiers it generated.                          *)
(***************************************************************************)
Err(kind, msg, st) ==
  [kind |-> kind, msg |-> msg, value |-> <<>>, st |-> st, used |-> 0]

Ok(value, st, used) ==
  [kind |-> "Ok", msg |-> "", value |-> value, st |-> st, used |-> used]

\* The loop runs while i <= quantity.
loopIndices_inclusive(quantity) == 0 .. quantity

\* for (let i = 0; i < quantity; i++): the values i takes.
loopIndices(quantity) == 0 .. (quantity - 1)

\* The map after inserting the records of a sequence, first to last, by id.
RECURSIVE insertAll(_, _)
insertAll(map, records) ==
  IF records = <<>> THEN map
  ELSE insertAll(insert(map, Head(records).id, Head(records)), Tail(records))

(***************************************************************************)
(* Variant "index": src/src/index.ts.                                      *)
(* Every handler takes the stores st, the caller, the host time, the       *)
(* number id of the next identifier to generate, and its arguments.        *)
(***************************************************************************)
\* The check looks the caller up under a key no user is stored under.
hasAccount_index_wrongKey(st, caller) == containsKey(st.users, <<caller>>)

\* userStorage.containsKey(ic.caller())
hasAccount_index(st, caller) == containsKey(st.users, caller)

\* The user is inserted before the role is validated.
createUser_index_insertFirst(st, caller, time, payload) ==
  IF hasAccount_index(st, caller)
  THEN Err("BadRequest", "You already have an account", st)
  ELSE LET newUser == [id |-> caller, name |-> payload.name, role |-> payload.role,
                       createdAt |-> time, updatedAt |-> time]
           stored == [st EXCEPT !.users = insert(@, newUser.id, newUser)]
       IN IF payload.role \notin USER_ROLE
          THEN Err("BadRequest", "Please input a valid role", stored)
          ELSE Ok(newUser, stored, 0)

createUser_index(st, caller, time, payload) ==
  IF hasAccount_index(st, caller)
  THEN Err("BadRequest", "You already have an account", st)
  ELSE IF payload.role \notin USER_ROLE
  THEN Err("BadRequest", "Please input a valid role", st)
  ELSE LET newUser == [id |-> caller, name |-> payload.name, role |-> payload.role,
                       createdAt |-> time, updatedAt |-> time]
       IN Ok(newUser, [st EXCEPT !.users = insert(@, newUser.id, newUser)], 0)

\* The role is compared with a value no stored role differs from, so that the
\* check lets every registered user through.
notOrganizer_index_anyRole(st, id) == st.users[id].role \notin USER_ROLE

\* userStorage.get(ic.caller()).Some.role !== 'organizer'
notOrganizer_index(st, id) == st.users[id].role # Word("organizer")

\* payload.date < ic.time()
dateNotValid_index(date, time) == date < time

createEvent_index(st, caller, time, id, payload) ==
  IF ~containsKey(st.users, caller)
  THEN Err("Unauthorized", "Create an account first", st)
  ELSE IF notOrganizer_index(st, caller)
  THEN Err("Forbidden", "Only organizers can create events", st)
  ELSE IF dateNotValid_index(payload.date, time)
  THEN Err("BadRequest", "Please input a valid date", st)
  ELSE LET newEvent == [id |-> uuidv4(id), name |-> payload.name, date |-> payload.date,
                        location |-> payload.location, organizerId |-> caller,
                        createdAt |-> time, updatedAt |-> time]
       IN Ok(newEvent, [st EXCEPT !.events = insert(@, newEvent.id, newEvent)], 1)

\* The tickets the loop of createTickets builds, in the order it builds them.
newTickets_index(caller, time, id, quantity, payload) ==
  [n \in {i + 1 : i \in loopIndices(quantity)} |->
     [id |-> uuidv4(id + n - 1), role |-> payload.role, price |-> payload.price,
      eventId |-> payload.eventId, participantId |-> None, organizerId |-> caller,
      createdAt |-> time, updatedAt |-> time]]

createTickets_index(st, caller, time, id, quantity, payload) ==
  IF ~containsKey(st.users, caller)
  THEN Err("Unauthorized", "Create an account first", st)
  ELSE IF notOrganizer_index(st, caller)
  THEN Err("Forbidden", "Only organizers can create tickets", st)
  ELSE IF payload.role \notin TICKET_ROLE
  THEN Err("BadRequest", "Please input a valid role", st)
  ELSE IF ~containsKey(st.events, payload.eventId)
  THEN Err("NotFound", "Event not found", st)
  ELSE IF st.events[payload.eventId].organizerId # caller
  THEN Err("Forbidden", "Only event owner can create tickets", st)
  ELSE IF st.events[payload.eventId].date < time
  THEN Err("BadRequest", "Event already started", st)
  ELSE LET newTickets == newTickets_index(caller, time, id, quantity, payload)
       IN Ok(newTickets, [st EXCEPT !.tickets = insertAll(@, newTickets)],
             Len(newTickets))

\* The role is compared with a value no stored role differs from, so that the
\* check lets every registered user through.
notParticipant_index_anyRole(st, id) == st.users[id].role \notin USER_ROLE

\* userStorage.get(id).Some.role !== 'participant'
notParticipant_index(st, id) == st.users[id].role # Word("participant")

\* Only a payment below the price is refused.
notExactPrice_index_underpaid(ticket, payload) == payload.pay < ticket.price

\* ticket.Some.price !== payload.pay
notExactPrice_index(ticket, payload) == ticket.price # payload.pay

\* The check reads the wrong arm of the Opt (!!ticket.Some.participantId.None),
\* which is falsy whether or not the ticket has a participant.
alreadySold_index_wrongArm(ticket) == FALSE

\* !!ticket.Some.participantId.Some
alreadySold_index(ticket) == ticket.participantId # None

\* The ticket as buyTicket stores it again.
boughtTicket_index(ticket, newTransaction, time) ==
  [ticket EXCEPT !.participantId = Some(newTransaction.participantId),
                 !.updatedAt = time]

\* The transfer stores the ticket with participantId: None, as createTickets does.
transferredTicket_index_cleared(ticket, newTransaction, time) ==
  [ticket EXCEPT !.participantId = None, !.updatedAt = time]

\* The ticket as transferTicket stores it again.
transferredTicket_index(ticket, newTransaction, time) ==
  [ticket EXCEPT !.participantId = Some(newTransaction.participantId),
                 !.updatedAt = time]

\* The transaction names the buyer, not the ticket's organizer, as organizerId.
buyTransaction_index_buyerAsOrganizer(ticket, caller, time, id, payload) ==
  [id |-> uuidv4(id), mode |-> "buy", pay |-> payload.pay,
   ticketId |-> payload.ticketId, senderId |-> None, participantId |-> caller,
   organizerId |-> caller, createdAt |-> time, updatedAt |-> time]

buyTransaction_index(ticket, caller, time, id, payload) ==
  [id |-> uuidv4(id), mode |-> "buy", pay |-> payload.pay,
   ticketId |-> payload.ticketId, senderId |-> None, participantId |-> caller,
   organizerId |-> ticket.organizerId, createdAt |-> time, updatedAt |-> time]

buyTicket_index(st, caller, time, id, payload) ==
  IF ~containsKey(st.users, caller)
  THEN Err("Unauthorized", "Create an account first", st)
  ELSE IF notParticipant_index(st, caller)
  THEN Err("Forbidden", "Only participants can buy tickets", st)
  ELSE IF ~containsKey(st.tickets, payload.ticketId)
  THEN Err("NotFound", "Ticket not found", st)
  ELSE LET ticket == st.tickets[payload.ticketId] IN
  IF notExactPrice_index(ticket, payload)
  THEN Err("BadRequest", "Please pay the exact ticket price", st)
  ELSE IF alreadySold_index(ticket)
  THEN Err("BadRequest", "Ticket has already been sold", st)
  ELSE LET newTransaction == buyTransaction_index(ticket, caller, time, id, payload)
       IN Ok(newTransaction,
             [st EXCEPT
                !.tickets = insert(@, ticket.id,
                                   boughtTicket_index(ticket, newTransaction, time)),
                !.transactions = insert(@, newTransaction.id, newTransaction)],
             1)

\* The owner check is made only when the ticket has a participant.
notTicketOwner_index_onlyIfSold(ticket, caller) ==
  ticket.participantId # None /\ ticket.participantId # Some(caller)

\* ticket.Some.participantId.Some?.toText() !== ic.caller().toText()
notTicketOwner_index(ticket, caller) == ticket.participantId # Some(caller)

\* The transaction is stored under the identifier generated last, not a new one.
transferTransaction_index_reusedId(ticket, caller, time, id, participantId) ==
  [id |-> uuidv4(id - 1), mode |-> "transfer", pay |-> 0, ticketId |-> ticket.id,
   senderId |-> Some(caller), participantId |-> participantId,
   organizerId |-> ticket.organizerId, createdAt |-> time, updatedAt |-> time]

transferTransaction_index(ticket, caller, time, id, participantId) ==
  [id |-> uuidv4(id), mode |-> "transfer", pay |-> 0, ticketId |-> ticket.id,
   senderId |-> Some(caller), participantId |-> participantId,
   organizerId |-> ticket.organizerId, createdAt |-> time, updatedAt |-> time]

transferTicket_index(st, caller, time, id, ticketId, participantId) ==
  IF ~containsKey(st.users, caller)
  THEN Err("Unauthorized", "Create an account first", st)
  ELSE IF ~containsKey(st.users, participantId)
  THEN Err("NotFound", "User not found", st)
  ELSE IF notParticipant_index(st, caller)
  THEN Err("Forbidden", "Only participants can transfer tickets", st)
  ELSE IF notParticipant_index(st, participantId)
  THEN Err("Forbidden", "Only participants can receive tickets", st)
  ELSE IF caller = participantId
  THEN Err("BadRequest", "You cannot transfer to yourself", st)
  ELSE IF ~containsKey(st.tickets, ticketId)
  THEN Err("NotFound", "Ticket not found", st)
  ELSE LET ticket == st.tickets[ticketId] IN
  IF notTicketOwner_index(ticket, caller)
  THEN Err("Forbidden", "Only ticket owner can transfer it", st)
  ELSE LET newTransaction ==
             transferTransaction_index(ticket, caller, time, id, participantId)
       IN Ok(newTransaction,
             [st EXCEPT
                !.tickets = insert(@, ticket.id,
                                   transferredTicket_index(ticket, newTransaction, time)),
                !.transactions = insert(@, newTransaction.id, newTransaction)],
             1)

\* The filter of getMyTickets with the two arms of its conditional exchanged.
myTicket_index_armsExchanged(role, ticket, caller) ==
  IF role = Word("organizer")
  THEN ticket.participantId = Some(caller)
  ELSE ticket.organizerId = caller

\* role === 'organizer' ? ticket.organizerId.toText() === ic.caller().toText()
\*                      : ticket.participantId.Some?.toText() === ic.caller().toText()
myTicket_index(role, ticket, caller) ==
  IF role = Word("organizer")
  THEN ticket.organizerId = caller
  ELSE ticket.participantId = Some(caller)

\* role === 'organizer' ? transaction.organizerId ... === caller
\*   : transaction.participantId ... === caller || transaction.senderId.Some?... === caller
myTransaction_index(role, transaction, caller) ==
  IF role = Word("organizer")
  THEN transaction.organizerId = caller
  ELSE transaction.participantId = caller \/ transaction.senderId = Some(caller)

\* The query answers without looking the caller up: Ok(user.Some) of a None.
getMe_index_noGate(st, caller) ==
  IF ~containsKey(st.users, caller)
  THEN Ok(<<>>, st, 0)
  ELSE Ok(st.users[caller], st, 0)

getMe_index(st, caller) ==
  IF ~containsKey(st.users, caller)
  THEN Err("Unauthorized", "Create an account first", st)
  ELSE Ok(st.users[caller], st, 0)

getEvents_index(st) == Ok(values(st.events), st, 0)

\* The query lists only the tickets that have no participant.
getTicketsByEvent_index_unsoldOnly(st, eventId) ==
  IF ~containsKey(st.events, eventId)
  THEN Err("NotFound", "Event not found", st)
  ELSE Ok({ticket \in values(st.tickets) :
             ticket.eventId = eventId /\ ticket.participantId = None}, st, 0)

getTicketsByEvent_index(st, eventId) ==
  IF ~containsKey(st.events, eventId)
  THEN Err("NotFound", "Event not found", st)
  ELSE Ok({ticket \in values(st.tickets) : ticket.eventId = eventId}, st, 0)

getMyTickets_index(st, caller) ==
  IF ~containsKey(st.users, caller)
  THEN Err("Unauthorized", "Create an account first", st)
  ELSE LET role == st.users[caller].role
       IN Ok({ticket \in values(st.tickets) : myTicket_index(role, ticket, caller)},
             st, 0)

getMyTransactions_index(st, caller) ==
  IF ~containsKey(st.users, caller)
  THEN Err("Unauthorized", "Create an account first", st)
  ELSE LET role == st.users[caller].role
       IN Ok({transaction \in values(st.transactions) :
                myTransaction_index(role, transaction, caller)},
             st, 0)

(***************************************************************************)
(* Variant "part_000": src/unnamed/part_000.                               *)
(***************************************************************************)
createUser_part(st, caller, time, payload) ==
  LET \* What follows the first check, whose Err(...) is built but not returned.
      rest ==
        IF payload.role \notin USER_ROLE
        THEN Err("BadRequest", "Please input a valid role", st)
        ELSE IF isUserExists(st, caller)
        THEN Err("BadRequest", "You already have an account", st)
        ELSE LET newUser == [id |-> caller, createdAt |-> time, updatedAt |-> time,
                             name |-> payload.name, role |-> payload.role]
             IN Ok(newUser, [st EXCEPT !.users = insert(@, newUser.id, newUser)], 0)
  IN IF isStringEmpty(payload.name) \/ isStringEmpty(payload.role)
     THEN rest
     ELSE rest

\* The date has to be later than the next instant.
dateNotFuture_part_nextInstant(date, time) == date <= time + 1

\* payload.date <= ic.time()
dateNotFuture_part(date, time) == date <= time

createEvent_part(st, caller, time, id, payload) ==
  IF ~isUserExists(st, caller)
  THEN Err("Unauthorized", "Create an account first", st)
  ELSE IF ~isUserOrganizer(st, caller)
  THEN Err("Forbidden", "Only organizers can create events", st)
  ELSE IF isStringEmpty(payload.name) \/ isStringEmpty(payload.location)
          \/ payload.date = 0
  THEN Err("BadRequest", "Name, date and location cannot be empty", st)
  ELSE IF dateNotFuture_part(payload.date, time)
  THEN Err("BadRequest", "Date must be a date in the future", st)
  ELSE LET newEvent == [id |-> uuidv4(id), organizerId |-> caller,
                        createdAt |-> time, updatedAt |-> time,
                        name |-> payload.name, date |-> payload.date,
                        location |-> payload.location]
       IN Ok(newEvent, [st EXCEPT !.events = insert(@, newEvent.id, newEvent)], 1)

\* !quantity || !payload.price || isStringEmpty(payload.role) ||
\* isStringEmpty(payload.eventId)
ticketInputEmpty_part(quantity, payload) ==
  \/ quantity = 0
  \/ payload.price = 0
  \/ isStringEmpty(payload.role)
  \/ isStringEmpty(payload.eventId)

newTickets_part(caller, time, id, quantity, payload) ==
  [n \in {i + 1 : i \in loopIndices(quantity)} |->
     [id |-> uuidv4(id + n - 1), participantId |-> None, organizerId |-> caller,
      createdAt |-> time, updatedAt |-> time,
      role |-> payload.role, price |-> payload.price, eventId |-> payload.eventId]]

createTickets_part(st, caller, time, id, quantity, payload) ==
  IF ~isUserExists(st, caller)
  THEN Err("Unauthorized", "Create an account first", st)
  ELSE IF ~isUserOrganizer(st, caller)
  THEN Err("Forbidden", "Only organizers can create tickets", st)
  ELSE IF ticketInputEmpty_part(quantity, payload)
  THEN Err("BadRequest", "Quantity, role, price and event ID cannot be empty", st)
  ELSE IF quantity <= 0
  THEN Err("BadRequest", "Quantity must be greater than 0", st)
  ELSE IF payload.price <= 0
  THEN Err("BadRequest", "Price must be greater than 0", st)
  ELSE IF payload.role \notin TICKET_ROLE
  THEN Err("BadRequest", "Please input a valid role", st)
  ELSE IF ~isEventExists(st, payload.eventId)
  THEN Err("NotFound", "Event not found", st)
  ELSE LET event == st.events[payload.eventId] IN
  IF isProductOwner(caller, Some(event.organizerId)) # "true"
  THEN Err("Forbidden", "Only event owner can create tickets", st)
  ELSE IF event.date <= time
  THEN Err("BadRequest", "Event already started", st)
  ELSE LET newTickets == newTickets_part(caller, time, id, quantity, payload)
       IN Ok(newTickets, [st EXCEPT !.tickets = insertAll(@, newTickets)],
             Len(newTickets))

\* !!ticket.Some.participantId.Some
alreadySold_part(ticket) == ticket.participantId # None

\* The sale stores the ticket with the updatedAt it had.
boughtTicket_part_staleUpdatedAt(ticket, newTransaction, time) ==
  [ticket EXCEPT !.participantId = Some(newTransaction.participantId)]

\* The ticket as buyTicket stores it again.
boughtTicket_part(ticket, newTransaction, time) ==
  [ticket EXCEPT !.participantId = Some(newTransaction.participantId),
                 !.updatedAt = time]

\* The transfer stores the ticket as one created now.
transferredTicket_part_recreated(ticket, newTransaction, time) ==
  [ticket EXCEPT !.participantId = Some(newTransaction.participantId),
                 !.createdAt = time, !.updatedAt = time]

\* The ticket as transferTicket stores it again.
transferredTicket_part(ticket, newTransaction, time) ==
  [ticket EXCEPT !.participantId = Some(newTransaction.participantId),
                 !.updatedAt = time]

buyTransaction_part(ticket, caller, time, id, payload) ==
  [id |-> uuidv4(id), mode |-> "buy", senderId |-> None, participantId |-> caller,
   organizerId |-> ticket.organizerId, createdAt |-> time, updatedAt |-> time,
   pay |-> payload.pay, ticketId |-> payload.ticketId]

\* The sale is refused once the ticket's event has started, as createTickets is.
buyTicket_part_beforeEventOnly(st, caller, time, id, payload) ==
  IF ~isUserExists(st, caller)
  THEN Err("Unauthorized", "Create an account first", st)
  ELSE IF isUserOrganizer(st, caller)
  THEN Err("Forbidden", "Only participants can buy tickets", st)
  ELSE IF payload.pay = 0 \/ isStringEmpty(payload.ticketId)
  THEN Err("BadRequest", "Pay and ticket ID cannot be empty", st)
  ELSE IF ~isTicketExists(st, payload.ticketId)
  THEN Err("NotFound", "Ticket not found", st)
  ELSE LET ticket == st.tickets[payload.ticketId] IN
  IF ticket.price # payload.pay
  THEN Err("BadRequest", "Please pay the exact ticket price", st)
  ELSE IF alreadySold_part(ticket)
  THEN Err("BadRequest", "Ticket has already been sold", st)
  ELSE IF st.events[ticket.eventId].date <= time
  THEN Err("BadRequest", "Event already started", st)
  ELSE LET newTransaction == buyTransaction_part(ticket, caller, time, id, payload)
       IN Ok(newTransaction,
             [st EXCEPT
                !.tickets = insert(@, ticket.id,
                                   boughtTicket_part(ticket, newTransaction, time)),
                !.transactions = insert(@, newTransaction.id, newTransaction)],
             1)

buyTicket_part(st, caller, time, id, payload) ==
  IF ~isUserExists(st, caller)
  THEN Err("Unauthorized", "Create an account first", st)
  ELSE IF isUserOrganizer(st, caller)
  THEN Err("Forbidden", "Only participants can buy tickets", st)
  ELSE IF payload.pay = 0 \/ isStringEmpty(payload.ticketId)
  THEN Err("BadRequest", "Pay and ticket ID cannot be empty", st)
  ELSE IF ~isTicketExists(st, payload.ticketId)
  THEN Err("NotFound", "Ticket not found", st)
  ELSE LET ticket == st.tickets[payload.ticketId] IN
  IF ticket.price # payload.pay
  THEN Err("BadRequest", "Please pay the exact ticket price", st)
  ELSE IF alreadySold_part(ticket)
  THEN Err("BadRequest", "Ticket has already been sold", st)
  ELSE LET newTransaction == buyTransaction_part(ticket, caller, time, id, payload)
       IN Ok(newTransaction,
             [st EXCEPT
                !.tickets = insert(@, ticket.id,
                                   boughtTicket_part(ticket, newTransaction, time)),
                !.transactions = insert(@, newTransaction.id, newTransaction)],
             1)

\* The owner check passes for every caller.
ticketOwner_part_anyone(ticket, caller) == "true"

\* isProductOwner(ic.caller(), ticket.Some.participantId.Some): "true", "false",
\* or "throws" when the ticket has no participant.
ticketOwner_part(ticket, caller) == isProductOwner(caller, ticket.participantId)

\* The transaction names the sender, not the receiver, as participantId.
transferTransaction_part_sender(ticket, caller, time, id, participantId) ==
  [id |-> uuidv4(id), mode |-> "transfer", pay |-> 0, ticketId |-> ticket.id,
   senderId |-> Some(caller), participantId |-> caller,
   organizerId |-> ticket.organizerId, createdAt |-> time, updatedAt |-> time]

transferTransaction_part(ticket, caller, time, id, participantId) ==
  [id |-> uuidv4(id), mode |-> "transfer", pay |-> 0, ticketId |-> ticket.id,
   senderId |-> Some(caller), participantId |-> participantId,
   organizerId |-> ticket.organizerId, createdAt |-> time, updatedAt |-> time]

transferTicket_part(st, caller, time, id, ticketId, participantId) ==
  IF ~isUserExists(st, caller)
  THEN Err("Unauthorized", "Create an account first", st)
  ELSE IF isStringEmpty(ticketId)
  THEN Err("BadRequest", "Ticket ID and participant ID cannot be empty", st)
  ELSE IF ~isUserExists(st, participantId)
  THEN Err("NotFound", "User not found", st)
  ELSE IF isProductOwner(caller, Some(participantId)) = "true"
  THEN Err("BadRequest", "You cannot transfer to yourself", st)
  ELSE IF isUserOrganizer(st, caller) \/ isUserOrganizer(st, participantId)
  THEN Err("Forbidden", "Only participants can transfer tickets", st)
  ELSE IF ~isTicketExists(st, ticketId)
  THEN Err("NotFound", "Ticket not found", st)
  ELSE LET ticket == st.tickets[ticketId] IN
  IF ticketOwner_part(ticket, caller) = "throws"
  THEN \* the TypeError is caught by the handler's catch
       Err("InternalError", "TypeError", st)
  ELSE IF ticketOwner_part(ticket, caller) # "true"
  THEN Err("Forbidden", "Only ticket owner can transfer it", st)
  ELSE LET newTransaction ==
             transferTransaction_part(ticket, caller, time, id, participantId)
       IN Ok(newTransaction,
             [st EXCEPT
                !.tickets = insert(@, ticket.id,
                                   transferredTicket_part(ticket, newTransaction, time)),
                !.transactions = insert(@, newTransaction.id, newTransaction)],
             1)

myTicket_part(role, ticket, caller) ==
  IF role = Word("organizer")
  THEN ticket.organizerId = caller
  ELSE ticket.participantId = Some(caller)

\* A participant is shown the transactions they received, not those they sent.
myTransaction_part_receivedOnly(role, transaction, caller) ==
  IF role = Word("organizer")
  THEN transaction.organizerId = caller
  ELSE transaction.participantId = caller

myTransaction_part(role, transaction, caller) ==
  IF role = Word("organizer")
  THEN transaction.organizerId = caller
  ELSE transaction.participantId = caller \/ transaction.senderId = Some(caller)

getMe_part(st, caller) ==
  IF ~isUserExists(st, caller)
  THEN Err("Unauthorized", "Create an account first", st)
  ELSE Ok(st.users[caller], st, 0)

getEvents_part(st) == Ok(values(st.events), st, 0)

getEventTickets_part(st, eventId) ==
  IF ~isEventExists(st, eventId)
  THEN Err("NotFound", "Event not found", st)
  ELSE Ok({ticket \in values(st.tickets) : ticket.eventId = eventId}, st, 0)

getMyTickets_part(st, caller) ==
  IF ~isUserExists(st, caller)
  THEN Err("Unauthorized", "Create an account first", st)
  ELSE LET role == st.users[caller].role
       IN Ok({ticket \in values(st.tickets) : myTicket_part(role, ticket, caller)},
             st, 0)

getMyTransactions_part(st, caller) ==
  IF ~isUserExists(st, caller)
  THEN Err("Unauthorized", "Create an account first", st)
  ELSE LET role == st.users[caller].role
       IN Ok({transaction \in values(st.transactions) :
                myTransaction_part(role, transaction, caller)},
             st, 0)

(***************************************************************************)
(* The canister as a state machine.  Each variant has its own four stores; *)
(* a step is one call, delivered to both variants, or a tick of the host   *)
(* clock.  A call that changes no store and generates no identifier leaves *)
(* the state as it was.                                                    *)
(***************************************************************************)
St(v) ==
  [users |-> userStorage[v], events |-> eventStorage[v],
   tickets |-> ticketStorage[v], transactions |-> transactionStorage[v]]

\* The arguments the calls of a run are made with.
NameInputs == {Word("a")}

UserRoleInputs == USER_ROLE

EventNameInputs == {Word("e")}

LocationInputs == {Word("l")}

\* The current time and the next instant.
DateInputs == {now, now + 1}

TicketRoleInputs == {Word("vip")}

QuantityInputs == 1 .. MaxTickets

PriceInputs == 0 .. MaxPrice

PayInputs == 0 .. MaxPrice

\* The identifiers of the events stored in either variant.
EventIdInputs == UNION {DOMAIN eventStorage[v] : v \in Variants}

\* The same, of the tickets.
TicketIdInputs == UNION {DOMAIN ticketStorage[v] : v \in Variants}

Max(S) == CHOOSE x \in S : \A y \in S : y <= x

Init ==
  /\ userStorage = [v \in Variants |-> EmptyMap]
  /\ eventStorage = [v \in Variants |-> EmptyMap]
  /\ ticketStorage = [v \in Variants |-> EmptyMap]
  /\ transactionStorage = [v \in Variants |-> EmptyMap]
  /\ now = 1
  /\ nextId = 1

\* The state after a call whose outcome in variant v is out[v].
Commit(outcome) ==
  \E out \in {outcome} :
    LET used == Max({out[v].used : v \in Variants}) IN
    /\ \A v \in Variants :
         /\ Cardinality(DOMAIN out[v].st.events) <= MaxEvents
         /\ Cardinality(DOMAIN out[v].st.tickets) <= MaxTickets
         /\ Cardinality(DOMAIN out[v].st.transactions) <= MaxTransactions
    /\ userStorage' = [v \in Variants |-> out[v].st.users]
    /\ eventStorage' = [v \in Variants |-> out[v].st.events]
    /\ ticketStorage' = [v \in Variants |-> out[v].st.tickets]
    /\ transactionStorage' = [v \in Variants |-> out[v].st.transactions]
    /\ nextId' = nextId + used
    /\ now' = now

createUser(v, st, caller, time, payload) ==
  IF v = "index" THEN createUser_index(st, caller, time, payload)
  ELSE createUser_part(st, caller, time, payload)

createEvent(v, st, caller, time, id, payload) ==
  IF v = "index" THEN createEvent_index(st, caller, time, id, payload)
  ELSE createEvent_part(st, caller, time, id, payload)

createTickets(v, st, caller, time, id, quantity, payload) ==
  IF v = "index" THEN createTickets_index(st, caller, time, id, quantity, payload)
  ELSE createTickets_part(st, caller, time, id, quantity, payload)

buyTicket(v, st, caller, time, id, payload) ==
  IF v = "index" THEN buyTicket_index(st, caller, time, id, payload)
  ELSE buyTicket_part(st, caller, time, id, payload)

transferTicket(v, st, caller, time, id, ticketId, participantId) ==
  IF v = "index" THEN transferTicket_index(st, caller, time, id, ticketId, participantId)
  ELSE transferTicket_part(st, caller, time, id, ticketId, participantId)

getMe(v, st, caller) ==
  IF v = "index" THEN getMe_index(st, caller) ELSE getMe_part(st, caller)

getEvents(v, st) ==
  IF v = "index" THEN getEvents_index(st) ELSE getEvents_part(st)

\* getTicketsByEvent in index.ts, getEventTickets in part_000.
getTicketsByEvent(v, st, eventId) ==
  IF v = "index" THEN getTicketsByEvent_index(st, eventId)
  ELSE getEventTickets_part(st, eventId)

getMyTickets(v, st, caller) ==
  IF v = "index" THEN getMyTickets_index(st, caller) ELSE getMyTickets_part(st, caller)

getMyTransactions(v, st, caller) ==
  IF v = "index" THEN getMyTransactions_index(st, caller)
  ELSE getMyTransactions_part(st, caller)

CreateUser ==
  \E caller \in Principals, name \in NameInputs, role \in UserRoleInputs :
    LET payload == [name |-> name, role |-> role]
    IN Commit([v \in Variants |-> createUser(v, St(v), caller, now, payload)])

CreateEvent ==
  \E caller \in Principals, name \in EventNameInputs, date \in DateInputs,
     location \in LocationInputs :
    LET payload == [name |-> name, date |-> date, location |-> location]
    IN Commit([v \in Variants |-> createEvent(v, St(v), caller, now, nextId, payload)])

CreateTickets ==
  \E caller \in Principals, quantity \in QuantityInputs, role \in TicketRoleInputs,
     price \in PriceInputs, eventId \in EventIdInputs :
    LET payload == [role |-> role, price |-> price, eventId |-> eventId]
    IN Commit([v \in Variants |->
                 createTickets(v, St(v), caller, now, nextId, quantity, payload)])

BuyTicket ==
  \E caller \in Principals, pay \in PayInputs, ticketId \in TicketIdInputs :
    LET payload == [pay |-> pay, ticketId |-> ticketId]
    IN Commit([v \in Variants |-> buyTicket(v, St(v), caller, now, nextId, payload)])

TransferTicket ==
  \E caller \in Principals, ticketId \in TicketIdInputs, participantId \in Principals :
    Commit([v \in Variants |->
              transferTicket(v, St(v), caller, now, nextId, ticketId, participantId)])

\* The queries: they answer from the stores and leave them as they are.
GetMe ==
  \E caller \in Principals : Commit([v \in Variants |-> getMe(v, St(v), caller)])

GetEvents == Commit([v \in Variants |-> getEvents(v, St(v))])

GetTicketsByEvent ==
  \E eventId \in EventIdInputs :
    Commit([v \in Variants |-> getTicketsByEvent(v, St(v), eventId)])

GetMyTickets ==
  \E caller \in Principals : Commit([v \in Variants |-> getMyTickets(v, St(v), caller)])

GetMyTransactions ==
  \E caller \in Principals :
    Commit([v \in Variants |-> getMyTransactions(v, St(v), caller)])

\* The host clock moves on between calls.
Tick ==
  /\ now < MaxTime
  /\ now' = now + 1
  /\ UNCHANGED <<userStorage, eventStorage, ticketStorage, transactionStorage, nextId>>

Next ==
  \/ CreateUser
  \/ CreateEvent
  \/ CreateTickets
  \/ BuyTicket
  \/ TransferTicket
  \/ GetMe
  \/ GetEvents
  \/ GetTicketsByEvent
  \/ GetMyTickets
  \/ GetMyTransactions
  \/ Tick

Spec == Init /\ [][Next]_vars

(***************************************************************************)
(* The arguments the properties below are stated for: those of a run, and  *)
(* the malformed ones (blank texts, unknown roles, unknown identifiers,    *)
(* zero or wrong amounts, past dates).                                     *)
(***************************************************************************)
Names == {<<>>, <<" ">>, Word("a"), <<" ", "a", " ">>}

UserRoles == USER_ROLE \cup {Word("admin"), <<>>}

EventNames == {<<" ">>, Word("e")}

Locations == {<<>>, Word("l")}

Dates == 0 .. (MaxTime + 1)

TicketRoles == {Word("vip"), Word("gold"), <<>>}

Quantities == 0 .. MaxTickets

Prices == 0 .. MaxPrice

Pays == 0 .. (MaxPrice + 1)

\* The stored identifiers, one identifier not generated yet, and a blank text.
EventIds == EventIdInputs \cup {uuidv4(nextId), <<" ">>}

TicketIds == TicketIdInputs \cup {uuidv4(nextId), <<" ">>}

\* The transactions of a store that are about ticket t.
TransactionsOf(transactions, t) ==
  {x \in DOMAIN transactions : transactions[x].ticketId = t}

(***************************************************************************)
(* C1: in both variants, once a ticket's participantId is set it is never  *)
(* empty again: no step of the canister takes a ticket that has a holder   *)
(* to a state where the ticket is gone or has no holder.                   *)
(***************************************************************************)
C1_StaysSold ==
  \A v \in Variants : \A t \in DOMAIN ticketStorage[v] :
    ticketStorage[v][t].participantId # None
      => /\ t \in DOMAIN ticketStorage'[v]
         /\ ticketStorage'[v][t].participantId # None

C1_NeverBackToUnsold == [][C1_StaysSold]_vars

\* In both variants a ticket was bought and then transferred, and has a holder.
C1_Witness ==
  \A v \in Variants : \E x \in DOMAIN transactionStorage[v] :
    /\ transactionStorage[v][x].mode = "transfer"
    /\ ticketStorage[v][transactionStorage[v][x].ticketId].participantId
         = Some(transactionStorage[v][x].participantId)

(***************************************************************************)
(* C2: a ticket is sold at most once.  In both variants, in every state,   *)
(* buyTicket on a ticket that has a holder fails for every caller and      *)
(* every payment and leaves the stores as they are (so the holder stays    *)
(* and no Transaction is added), and no ticket has two Transactions of     *)
(* mode buy.                                                               *)
(***************************************************************************)
C2_SoldAtMostOnce ==
  \A v \in Variants :
    LET st == St(v) IN
    /\ \A t \in DOMAIN st.tickets : st.tickets[t].participantId # None =>
         \A caller \in Principals, pay \in Pays :
           LET out == buyTicket(v, st, caller, now, nextId,
                                [pay |-> pay, ticketId |-> t])
           IN out.kind # "Ok" /\ out.st = st
    /\ \A t \in DOMAIN st.tickets :
         Cardinality({x \in TransactionsOf(st.transactions, t) :
                        st.transactions[x].mode = "buy"}) <= 1

\* In both variants a ticket is sold, and another registered participant who
\* offers exactly its price is told that it has already been sold.
C2_Witness ==
  \A v \in Variants :
    \E t \in DOMAIN ticketStorage[v], caller \in DOMAIN userStorage[v] :
      /\ ticketStorage[v][t].participantId # None
      /\ ticketStorage[v][t].participantId # Some(caller)
      /\ userStorage[v][caller].role = Word("participant")
      /\ buyTicket(v, St(v), caller, now, nextId,
                   [pay |-> ticketStorage[v][t].price, ticketId |-> t]).msg
           = "Ticket has already been sold"

(***************************************************************************)
(* C3: in both variants, in every state, transferTicket succeeds only for  *)
(* the caller who is the ticket's participantId at that moment; for every  *)
(* other caller (a previous holder, one who never held it, anyone on an    *)
(* unsold ticket) it fails and the ticket store is unchanged.              *)
(***************************************************************************)
C3_OnlyHolderTransfers ==
  \A v \in Variants :
    LET st == St(v) IN
    \A caller \in Principals, t \in TicketIds, to \in Principals :
      LET out == transferTicket(v, st, caller, now, nextId, t, to) IN
      IF t \in DOMAIN st.tickets /\ st.tickets[t].participantId = Some(caller)
      THEN TRUE
      ELSE out.kind # "Ok" /\ out.st.tickets = st.tickets

\* In both variants a ticket has been transferred away by its first holder,
\* who now asks to transfer it again and is refused as not being the owner;
\* the present holder's transfer of it would succeed.
C3_Witness ==
  \A v \in Variants : \E x \in DOMAIN transactionStorage[v] :
    LET tx == transactionStorage[v][x]
        t == tx.ticketId
    IN /\ tx.mode = "transfer"
       /\ ticketStorage[v][t].participantId = Some(tx.participantId)
       /\ transferTicket(v, St(v), tx.senderId[1], now, nextId, t, tx.participantId).msg
            = "Only ticket owner can transfer it"
       /\ transferTicket(v, St(v), tx.participantId, now, nextId, t, tx.senderId[1]).kind
            = "Ok"

(***************************************************************************)
(* C4: in both variants, in every state, a buyTicket or transferTicket     *)
(* that succeeds adds exactly one Transaction, for the target ticket, with *)
(* participantId the new holder, organizerId the ticket's, and either      *)
(* (buy, pay as paid, no sender) or (transfer, pay 0, sender the caller);  *)
(* a call that fails, and every other operation, leaves the transaction    *)
(* store as it is.                                                         *)
(***************************************************************************)
\* new is old with exactly one more record, and that record satisfies P.
AddsOne(old, new, P(_)) ==
  /\ DOMAIN old \subseteq DOMAIN new
  /\ \A x \in DOMAIN old : new[x] = old[x]
  /\ Cardinality(DOMAIN new \ DOMAIN old) = 1
  /\ \A x \in DOMAIN new \ DOMAIN old : P(new[x])

C4_OneTransactionPerSale ==
  \A v \in Variants :
    LET st == St(v) IN
    /\ \A caller \in Principals, pay \in Pays, t \in TicketIds :
         LET out == buyTicket(v, st, caller, now, nextId, [pay |-> pay, ticketId |-> t])
             Bought(r) ==
               /\ r.ticketId = t
               /\ r.participantId = caller
               /\ out.st.tickets[t].participantId = Some(caller)
               /\ r.organizerId = st.tickets[t].organizerId
               /\ r.mode = "buy" /\ r.pay = pay /\ r.senderId = None
               /\ out.value = r
         IN IF out.kind = "Ok"
            THEN AddsOne(st.transactions, out.st.transactions, Bought)
            ELSE out.st.transactions = st.transactions
    /\ \A caller \in Principals, t \in TicketIds, to \in Principals :
         LET out == transferTicket(v, st, caller, now, nextId, t, to)
             Transferred(r) ==
               /\ r.ticketId = t
               /\ r.participantId = to
               /\ out.st.tickets[t].participantId = Some(to)
               /\ r.organizerId = st.tickets[t].organizerId
               /\ r.mode = "transfer" /\ r.pay = 0 /\ r.senderId = Some(caller)
               /\ out.value = r
         IN IF out.kind = "Ok"
            THEN AddsOne(st.transactions, out.st.transactions, Transferred)
            ELSE out.st.transactions = st.transactions
    /\ \A caller \in Principals, name \in Names, role \in UserRoles :
         createUser(v, st, caller, now, [name |-> name, role |-> role])
           .st.transactions = st.transactions
    /\ \A caller \in Principals, name \in EventNames, date \in Dates,
          location \in Locations :
         createEvent(v, st, caller, now, nextId,
                     [name |-> name, date |-> date, location |-> location])
           .st.transactions = st.transactions
    /\ \A caller \in Principals, quantity \in Quantities, role \in TicketRoles,
          price \in Prices, e \in EventIds :
         createTickets(v, st, caller, now, nextId, quantity,
                       [role |-> role, price |-> price, eventId |-> e])
           .st.transactions = st.transactions

\* In both variants a sale and a transfer have each been recorded.
C4_Witness ==
  \A v \in Variants :
    /\ \E x \in DOMAIN transactionStorage[v] : transactionStorage[v][x].mode = "buy"
    /\ \E x \in DOMAIN transactionStorage[v] :
         transactionStorage[v][x].mode = "transfer"

(***************************************************************************)
(* C5: in both variants, in every state, a createTickets(quantity,         *)
(* {role, price, eventId}) that succeeds returns and adds exactly quantity *)
(* new tickets, under distinct fresh identifiers, each with no             *)
(* participant, organizerId the caller, and the role, price and eventId    *)
(* given, and leaves the tickets already stored as they are; one that      *)
(* returns an error leaves the ticket store unchanged.                     *)
(***************************************************************************)
C5_BatchIsExact ==
  \A v \in Variants :
    LET st == St(v) IN
    \A caller \in Principals, quantity \in Quantities, role \in TicketRoles,
       price \in Prices, e \in EventIds :
      LET out == createTickets(v, st, caller, now, nextId, quantity,
                               [role |-> role, price |-> price, eventId |-> e])
          added == DOMAIN out.st.tickets \ DOMAIN st.tickets
      IN IF out.kind = "Ok"
         THEN /\ DOMAIN st.tickets \subseteq DOMAIN out.st.tickets
              /\ \A t \in DOMAIN st.tickets : out.st.tickets[t] = st.tickets[t]
              /\ Cardinality(added) = quantity
              /\ Len(out.value) = quantity
              /\ {out.value[i].id : i \in 1 .. Len(out.value)} = added
              /\ \A t \in added :
                   /\ out.st.tickets[t].id = t
                   /\ out.st.tickets[t].participantId = None
                   /\ out.st.tickets[t].organizerId = caller
                   /\ out.st.tickets[t].role = role
                   /\ out.st.tickets[t].price = price
                   /\ out.st.tickets[t].eventId = e
         ELSE out.st.tickets = st.tickets

\* In both variants two tickets are stored, and the organizer of an event can
\* issue a batch of two more.
C5_Witness ==
  \A v \in Variants :
    /\ Cardinality(DOMAIN ticketStorage[v]) = 2
    /\ \E e \in DOMAIN eventStorage[v] :
         createTickets(v, St(v), eventStorage[v][e].organizerId, now, nextId, 2,
                       [role |-> Word("vip"), price |-> 1, eventId |-> e]).kind = "Ok"

(***************************************************************************)
(* C6: in both variants there is one User record per caller identity,      *)
(* stored under that identity, and no step of the canister removes or      *)
(* changes a stored User (a second createUser by the same caller, with the *)
(* same or another role, changes nothing).                                 *)
(***************************************************************************)
C6_UserKept ==
  \A v \in Variants :
    /\ \A p \in DOMAIN userStorage[v] :
         p \in DOMAIN userStorage'[v] /\ userStorage'[v][p] = userStorage[v][p]
    /\ \A p \in DOMAIN userStorage'[v] : userStorage'[v][p].id = p

C6_UserIsImmutable == [][C6_UserKept]_vars

\* In both variants a registered organizer who asks to register again as a
\* participant is told that the account exists.
C6_Witness ==
  \A v \in Variants : \E p \in DOMAIN userStorage[v] :
    /\ userStorage[v][p].role = Word("organizer")
    /\ createUser(v, St(v), p, now, [name |-> Word("a"), role |-> Word("participant")]).msg
         = "You already have an account"

(***************************************************************************)
(* C7: in both variants, in every state, a call of any operation that      *)
(* returns an error leaves the four stores exactly as they were.           *)
(***************************************************************************)
ErrorKeeps(out, st) == out.kind # "Ok" => out.st = st

C7_ErrorChangesNothing ==
  \A v \in Variants :
    LET st == St(v) IN
    /\ \A caller \in Principals, name \in Names, role \in UserRoles :
         ErrorKeeps(createUser(v, st, caller, now, [name |-> name, role |-> role]), st)
    /\ \A caller \in Principals, name \in EventNames, date \in Dates,
          location \in Locations :
         ErrorKeeps(createEvent(v, st, caller, now, nextId,
                                [name |-> name, date |-> date, location |-> location]),
                    st)
    /\ \A caller \in Principals, quantity \in Quantities, role \in TicketRoles,
          price \in Prices, e \in EventIds :
         ErrorKeeps(createTickets(v, st, caller, now, nextId, quantity,
                                  [role |-> role, price |-> price, eventId |-> e]),
                    st)
    /\ \A caller \in Principals, pay \in Pays, t \in TicketIds :
         ErrorKeeps(buyTicket(v, st, caller, now, nextId, [pay |-> pay, ticketId |-> t]),
                    st)
    /\ \A caller \in Principals, t \in TicketIds, to \in Principals :
         ErrorKeeps(transferTicket(v, st, caller, now, nextId, t, to), st)
    /\ \A caller \in Principals :
         /\ ErrorKeeps(getMe(v, st, caller), st)
         /\ ErrorKeeps(getMyTickets(v, st, caller), st)
         /\ ErrorKeeps(getMyTransactions(v, st, caller), st)
    /\ ErrorKeeps(getEvents(v, st), st)
    /\ \A e \in EventIds : ErrorKeeps(getTicketsByEvent(v, st, e), st)

\* In both variants, with a ticket sold and another unsold, a transfer of the
\* unsold ticket and a purchase at the wrong price both return errors.
C7_Witness ==
  \A v \in Variants :
    \E t \in DOMAIN ticketStorage[v], u \in DOMAIN ticketStorage[v] :
      /\ ticketStorage[v][t].participantId # None
      /\ ticketStorage[v][u].participantId = None
      /\ LET holder == ticketStorage[v][t].participantId[1] IN
         /\ \E to \in DOMAIN userStorage[v] :
              transferTicket(v, St(v), holder, now, nextId, u, to).kind
                \in {"Forbidden", "InternalError"}
         /\ buyTicket(v, St(v), holder, now, nextId,
                      [pay |-> ticketStorage[v][u].price + 1, ticketId |-> u]).kind
              = "BadRequest"

(***************************************************************************)
(* C8: in both variants, createUser with an empty or blank name and a      *)
(* valid role fails with BadRequest and stores no User, and no stored User *)
(* has an empty or blank name.                                             *)
(***************************************************************************)
C8_BlankNameRejected ==
  \A v \in Variants :
    LET st == St(v) IN
    /\ \A caller \in Principals, name \in Names, role \in USER_ROLE :
         isStringEmpty(name) =>
           LET out == createUser(v, st, caller, now, [name |-> name, role |-> role])
           IN out.kind = "BadRequest" /\ out.st.users = st.users
    /\ \A p \in DOMAIN st.users : ~isStringEmpty(st.users[p].name)

(***************************************************************************)
(* C9: in both variants, every stored Event has date > createdAt, and a    *)
(* createEvent by a registered organizer whose date equals the current     *)
(* time fails with BadRequest and stores nothing.                          *)
(***************************************************************************)
C9_DateStrictlyFuture ==
  \A v \in Variants :
    LET st == St(v) IN
    /\ \A e \in DOMAIN st.events : st.events[e].date > st.events[e].createdAt
    /\ \A caller \in DOMAIN st.users, name \in EventNames, location \in Locations :
         st.users[caller].role = Word("organizer") =>
           LET out == createEvent(v, st, caller, now, nextId,
                                  [name |-> name, date |-> now, location |-> location])
           IN out.kind = "BadRequest" /\ out.st = st

(***************************************************************************)
(* C10: in both variants, createTickets by the event's organizer with      *)
(* quantity 0 or price 0 fails with BadRequest and adds no tickets, every  *)
(* stored Ticket has price > 0, and no createTickets that succeeds returns *)
(* an empty batch.                                                         *)
(***************************************************************************)
C10_PositiveQuantityAndPrice ==
  \A v \in Variants :
    LET st == St(v) IN
    /\ \A t \in DOMAIN st.tickets : st.tickets[t].price > 0
    /\ \A e \in DOMAIN st.events, quantity \in Quantities, role \in TicketRoles,
          price \in Prices :
         LET out == createTickets(v, st, st.events[e].organizerId, now, nextId, quantity,
                                  [role |-> role, price |-> price, eventId |-> e])
         IN /\ (quantity = 0 \/ price = 0) =>
                 out.kind = "BadRequest" /\ out.st.tickets = st.tickets
            /\ out.kind = "Ok" => Len(out.value) > 0

(***************************************************************************)
(* C11: in both variants, every stored Ticket has createdAt before the     *)
(* date of the Event its eventId names, and in every state a createTickets *)
(* made when the current time is the event's date or later fails and adds  *)
(* no ticket.  It is stated of the events whose date is after their        *)
(* creation, so that it does not rest on what createEvent lets in.         *)
(***************************************************************************)
C11_IssuedBeforeEventDate ==
  \A v \in Variants :
    LET st == St(v)
        Dated == {e \in DOMAIN st.events : st.events[e].createdAt < st.events[e].date}
    IN /\ \A t \in DOMAIN st.tickets :
            st.tickets[t].eventId \in Dated =>
              st.tickets[t].createdAt < st.events[st.tickets[t].eventId].date
       /\ \A e \in Dated : st.events[e].date <= now =>
            \A caller \in Principals, quantity \in Quantities, role \in TicketRoles,
               price \in Prices :
              LET out == createTickets(v, st, caller, now, nextId, quantity,
                                       [role |-> role, price |-> price, eventId |-> e])
              IN out.kind # "Ok" /\ out.st.tickets = st.tickets

(***************************************************************************)
(* C12: referential integrity.  In both variants, in every state, every    *)
(* Ticket's eventId names a stored Event whose organizerId is the          *)
(* Ticket's, and every Transaction's ticketId names a stored Ticket whose  *)
(* organizerId is the Transaction's.                                       *)
(***************************************************************************)
C12_ReferentialIntegrity ==
  \A v \in Variants :
    LET st == St(v) IN
    /\ \A t \in DOMAIN st.tickets :
         /\ st.tickets[t].eventId \in DOMAIN st.events
         /\ st.tickets[t].organizerId = st.events[st.tickets[t].eventId].organizerId
    /\ \A x \in DOMAIN st.transactions :
         /\ st.transactions[x].ticketId \in DOMAIN st.tickets
         /\ st.transactions[x].organizerId
              = st.tickets[st.transactions[x].ticketId].organizerId

\* In both variants a ticket of a stored event has been bought and transferred,
\* so that Transactions of both modes refer to it.
C12_Witness ==
  \A v \in Variants :
    \E x \in DOMAIN transactionStorage[v], y \in DOMAIN transactionStorage[v] :
      /\ transactionStorage[v][x].mode = "buy"
      /\ transactionStorage[v][y].mode = "transfer"
      /\ transactionStorage[v][x].ticketId = transactionStorage[v][y].ticketId
      /\ transactionStorage[v][x].ticketId \in DOMAIN ticketStorage[v]
      /\ Cardinality(DOMAIN eventStorage[v]) = 1

(***************************************************************************)
(* C13: tickets are held by Participants only.  In both variants, in every *)
(* state, each Ticket's participantId, when present, is a registered User  *)
(* of role participant; a buyTicket whose caller is an organizer fails;    *)
(* and a transferTicket whose caller or recipient is an organizer, or      *)
(* whose recipient is not registered, fails.                               *)
(***************************************************************************)
C13_HeldByParticipantsOnly ==
  \A v \in Variants :
    LET st == St(v)
        Organizers == {p \in DOMAIN st.users : st.users[p].role = Word("organizer")}
    IN /\ \A t \in DOMAIN st.tickets :
            st.tickets[t].participantId # None =>
              /\ st.tickets[t].participantId[1] \in DOMAIN st.users
              /\ st.users[st.tickets[t].participantId[1]].role = Word("participant")
       /\ \A caller \in Organizers, pay \in Pays, t \in TicketIds :
            buyTicket(v, st, caller, now, nextId, [pay |-> pay, ticketId |-> t]).kind
              # "Ok"
       /\ \A caller \in Principals, t \in TicketIds, to \in Principals :
            (caller \in Organizers \/ to \in Organizers \/ to \notin DOMAIN st.users) =>
              transferTicket(v, st, caller, now, nextId, t, to).kind # "Ok"

\* In both variants a participant holds a ticket, an organizer is registered and
\* a third identity is not: the holder's transfer to either is refused, and so
\* is the organizer's purchase of an unsold ticket at its price.
C13_Witness ==
  \A v \in Variants :
    \E t \in DOMAIN ticketStorage[v], u \in DOMAIN ticketStorage[v],
       o \in DOMAIN userStorage[v], q \in Principals \ DOMAIN userStorage[v] :
      /\ ticketStorage[v][t].participantId # None
      /\ ticketStorage[v][u].participantId = None
      /\ userStorage[v][o].role = Word("organizer")
      /\ LET holder == ticketStorage[v][t].participantId[1] IN
         /\ transferTicket(v, St(v), holder, now, nextId, t, o).kind = "Forbidden"
         /\ transferTicket(v, St(v), holder, now, nextId, t, q).kind = "NotFound"
      /\ buyTicket(v, St(v), o, now, nextId,
                   [pay |-> ticketStorage[v][u].price, ticketId |-> u]).kind = "Forbidden"

(***************************************************************************)
(* C14: in both variants, in every state, a transferTicket by a registered *)
(* participant to another registered participant, of a stored ticket whose *)
(* participantId is not the caller (another holder's ticket, or an unsold  *)
(* one), fails with Forbidden and changes nothing.                         *)
(***************************************************************************)
C14_NotOwnerIsForbidden ==
  \A v \in Variants :
    LET st == St(v)
        Participants == {p \in DOMAIN st.users : st.users[p].role = Word("participant")}
    IN \A caller \in Participants, to \in Participants, t \in DOMAIN st.tickets :
         (to # caller /\ st.tickets[t].participantId # Some(caller)) =>
           LET out == transferTicket(v, st, caller, now, nextId, t, to)
           IN out.kind = "Forbidden" /\ out.st = st

(***************************************************************************)
(* C15: in both variants, in every state, getMyTickets called by a         *)
(* registered participant returns exactly the stored tickets whose         *)
(* participantId is the caller; and in the stores left by a transferTicket *)
(* of ticket t from the caller to another participant that succeeds,       *)
(* getMyTickets of the caller does not list t and getMyTickets of the      *)
(* recipient does.                                                         *)
(***************************************************************************)
C15_MyTicketsAreTheHeldOnes ==
  \A v \in Variants :
    LET st == St(v) IN
    /\ \A caller \in DOMAIN st.users :
         st.users[caller].role = Word("participant") =>
           LET out == getMyTickets(v, st, caller)
           IN /\ out.kind = "Ok"
              /\ out.value = {st.tickets[t] : t \in
                                {u \in DOMAIN st.tickets :
                                   st.tickets[u].participantId = Some(caller)}}
              /\ out.st = st
    /\ \A caller \in Principals, t \in TicketIds, to \in Principals :
         LET out == transferTicket(v, st, caller, now, nextId, t, to)
         IN out.kind = "Ok" =>
              /\ \A ticket \in getMyTickets(v, out.st, caller).value : ticket.id # t
              /\ \E ticket \in getMyTickets(v, out.st, to).value : ticket.id = t

\* In both variants a participant holds a ticket that was transferred to them:
\* it is in their getMyTickets and not in the sender's, and they can pass it on.
C15_Witness ==
  \A v \in Variants : \E x \in DOMAIN transactionStorage[v] :
    LET tx == transactionStorage[v][x] IN
    /\ tx.mode = "transfer"
    /\ \E ticket \in getMyTickets(v, St(v), tx.participantId).value :
         ticket.id = tx.ticketId
    /\ \A ticket \in getMyTickets(v, St(v), tx.senderId[1]).value :
         ticket.id # tx.ticketId
    /\ transferTicket(v, St(v), tx.participantId, now, nextId, tx.ticketId,
                      tx.senderId[1]).kind = "Ok"

(***************************************************************************)
(* C16: in both variants, in every state, getMyTransactions returns to a   *)
(* registered organizer exactly the stored Transactions whose organizerId  *)
(* is the caller, and to a registered participant exactly those whose      *)
(* participantId is the caller or whose senderId is present and is the     *)
(* caller; it changes no store.                                            *)
(***************************************************************************)
C16_MyTransactionsAreTheCallers ==
  \A v \in Variants :
    LET st == St(v)
        Stored(P(_)) ==
          {st.transactions[x] : x \in {y \in DOMAIN st.transactions :
                                         P(st.transactions[y])}}
    IN \A caller \in DOMAIN st.users :
         LET out == getMyTransactions(v, st, caller)
             OfOrganizer(r) == r.organizerId = caller
             OfParticipant(r) ==
               r.participantId = caller \/ (r.senderId # None /\ r.senderId[1] = caller)
         IN /\ out.kind = "Ok"
            /\ out.st = st
            /\ st.users[caller].role = Word("organizer") =>
                 out.value = Stored(OfOrganizer)
            /\ st.users[caller].role = Word("participant") =>
                 out.value = Stored(OfParticipant)

\* In both variants a ticket was bought and then transferred: the organizer is
\* shown both Transactions, the past holder both (the sale and the transfer by
\* which the ticket was given away), and the new holder the transfer only.
C16_Witness ==
  \A v \in Variants :
    \E x \in DOMAIN transactionStorage[v], y \in DOMAIN transactionStorage[v] :
      LET buy == transactionStorage[v][x]
          transfer == transactionStorage[v][y]
      IN /\ buy.mode = "buy" /\ transfer.mode = "transfer"
         /\ transfer.senderId = Some(buy.participantId)
         /\ getMyTransactions(v, St(v), buy.organizerId).value = {buy, transfer}
         /\ getMyTransactions(v, St(v), buy.participantId).value = {buy, transfer}
         /\ getMyTransactions(v, St(v), transfer.participantId).value = {transfer}

(***************************************************************************)
(* C17: in both variants, in every state, a buyTicket succeeds only with   *)
(* pay exactly the ticket's price (no more, no less); no call of any       *)
(* operation changes the price of a stored ticket; and every stored        *)
(* Transaction of mode buy has pay equal to the price of its Ticket.       *)
(***************************************************************************)
\* The tickets of old are in new, at the price they had.
PricesKept(old, new) ==
  \A t \in DOMAIN old : t \in DOMAIN new /\ new[t].price = old[t].price

C17_PaidExactlyThePrice ==
  \A v \in Variants :
    LET st == St(v) IN
    /\ \A x \in DOMAIN st.transactions :
         st.transactions[x].mode = "buy" =>
           /\ st.transactions[x].ticketId \in DOMAIN st.tickets
           /\ st.transactions[x].pay = st.tickets[st.transactions[x].ticketId].price
    /\ \A caller \in Principals, pay \in Pays, t \in TicketIds :
         LET out == buyTicket(v, st, caller, now, nextId, [pay |-> pay, ticketId |-> t])
         IN /\ out.kind = "Ok" => t \in DOMAIN st.tickets /\ pay = st.tickets[t].price
            /\ PricesKept(st.tickets, out.st.tickets)
    /\ \A caller \in Principals, t \in TicketIds, to \in Principals :
         PricesKept(st.tickets,
                    transferTicket(v, st, caller, now, nextId, t, to).st.tickets)
    /\ \A caller \in Principals, quantity \in Quantities, role \in TicketRoles,
          price \in Prices, e \in EventIds :
         PricesKept(st.tickets,
                    createTickets(v, st, caller, now, nextId, quantity,
                                  [role |-> role, price |-> price, eventId |-> e])
                      .st.tickets)
    /\ \A caller \in Principals, name \in Names, role \in UserRoles :
         PricesKept(st.tickets,
                    createUser(v, st, caller, now, [name |-> name, role |-> role])
                      .st.tickets)
    /\ \A caller \in Principals, name \in EventNames, date \in Dates,
          location \in Locations :
         PricesKept(st.tickets,
                    createEvent(v, st, caller, now, nextId,
                                [name |-> name, date |-> date, location |-> location])
                      .st.tickets)

\* In both variants a ticket was sold at its positive price, and for an unsold
\* ticket a participant's offer of one more or one less than its price is
\* refused while the exact price is accepted.
C17_Witness ==
  \A v \in Variants :
    /\ \E x \in DOMAIN transactionStorage[v] :
         /\ transactionStorage[v][x].mode = "buy"
         /\ transactionStorage[v][x].pay > 0
    /\ \E u \in DOMAIN ticketStorage[v], caller \in DOMAIN userStorage[v] :
         LET price == ticketStorage[v][u].price IN
         /\ price > 0
         /\ buyTicket(v, St(v), caller, now, nextId,
                      [pay |-> price + 1, ticketId |-> u]).kind = "BadRequest"
         /\ buyTicket(v, St(v), caller, now, nextId,
                      [pay |-> price - 1, ticketId |-> u]).kind = "BadRequest"
         /\ buyTicket(v, St(v), caller, now, nextId,
                      [pay |-> price, ticketId |-> u]).kind = "Ok"

(***************************************************************************)
(* C18: in both variants, in every state, for a caller with no User        *)
(* record, getMe, createEvent, createTickets, getMyTickets,                *)
(* getMyTransactions, buyTicket and transferTicket fail with Unauthorized  *)
(* whatever their arguments are, and change no store.                      *)
(***************************************************************************)
\* The outcome of a call the caller was not let in to make.
Refused(out, st) == out.kind = "Unauthorized" /\ out.st = st

C18_UnregisteredIsRefused ==
  \A v \in Variants :
    LET st == St(v) IN
    \A caller \in Principals \ DOMAIN st.users :
      /\ Refused(getMe(v, st, caller), st)
      /\ Refused(getMyTickets(v, st, caller), st)
      /\ Refused(getMyTransactions(v, st, caller), st)
      /\ \A name \in EventNames, date \in Dates, location \in Locations :
           Refused(createEvent(v, st, caller, now, nextId,
                               [name |-> name, date |-> date, location |-> location]),
                   st)
      /\ \A quantity \in Quantities, role \in TicketRoles, price \in Prices,
            e \in EventIds :
           Refused(createTickets(v, st, caller, now, nextId, quantity,
                                 [role |-> role, price |-> price, eventId |-> e]),
                   st)
      /\ \A pay \in Pays, t \in TicketIds :
           Refused(buyTicket(v, st, caller, now, nextId, [pay |-> pay, ticketId |-> t]),
                   st)
      /\ \A t \in TicketIds, to \in Principals :
           Refused(transferTicket(v, st, caller, now, nextId, t, to), st)

\* In both variants an identity is not registered while an unsold ticket of a
\* stored event and a registered participant exist: its purchase at the exact
\* price and its transfer are refused, and createUser, getEvents and the
\* event-tickets query answer it.
C18_Witness ==
  \A v \in Variants :
    \E caller \in Principals \ DOMAIN userStorage[v], t \in DOMAIN ticketStorage[v],
       to \in DOMAIN userStorage[v] :
      /\ ticketStorage[v][t].participantId = None
      /\ userStorage[v][to].role = Word("participant")
      /\ buyTicket(v, St(v), caller, now, nextId,
                   [pay |-> ticketStorage[v][t].price, ticketId |-> t]).kind
           = "Unauthorized"
      /\ transferTicket(v, St(v), caller, now, nextId, t, to).kind = "Unauthorized"
      /\ createUser(v, St(v), caller, now,
                    [name |-> Word("a"), role |-> Word("participant")]).kind = "Ok"
      /\ getEvents(v, St(v)).kind = "Ok"
      /\ getTicketsByEvent(v, St(v), ticketStorage[v][t].eventId).kind = "Ok"

(***************************************************************************)
(* C19: the ledger is append-only.  In both variants no step of the        *)
(* canister removes or changes a stored Transaction, and likewise none     *)
(* removes or changes a stored Event or a stored User; so a record that is *)
(* in a store in some state is there, with the same fields, ever after.    *)
(***************************************************************************)
\* Every record of the map old is in the map new, as it was.
RecordsKept(old, new) ==
  \A k \in DOMAIN old : k \in DOMAIN new /\ new[k] = old[k]

C19_StepKeepsRecords ==
  \A v \in Variants :
    /\ RecordsKept(transactionStorage[v], transactionStorage'[v])
    /\ RecordsKept(eventStorage[v], eventStorage'[v])
    /\ RecordsKept(userStorage[v], userStorage'[v])

C19_AppendOnly == [][C19_StepKeepsRecords]_vars

\* In both variants the ledger holds a sale and, appended at a later time, a
\* transfer of the same ticket, beside the event and its organizer.
C19_Witness ==
  \A v \in Variants :
    \E x \in DOMAIN transactionStorage[v], y \in DOMAIN transactionStorage[v],
       e \in DOMAIN eventStorage[v] :
      /\ transactionStorage[v][x].mode = "buy"
      /\ transactionStorage[v][y].mode = "transfer"
      /\ transactionStorage[v][y].ticketId = transactionStorage[v][x].ticketId
      /\ transactionStorage[v][x].createdAt < transactionStorage[v][y].createdAt
      /\ eventStorage[v][e].organizerId \in DOMAIN userStorage[v]

(***************************************************************************)
(* C20: in both variants, in every state, a transferTicket whose recipient *)
(* is the caller fails with BadRequest for every registered caller and     *)
(* every ticket argument, and changes nothing.                             *)
(***************************************************************************)
C20_SelfTransferIsBadRequest ==
  \A v \in Variants :
    LET st == St(v) IN
    \A caller \in DOMAIN st.users, t \in TicketIds :
      LET out == transferTicket(v, st, caller, now, nextId, t, caller)
      IN out.kind = "BadRequest" /\ out.st = st

(***************************************************************************)
(* C21: only Organizers own events and tickets.  In both variants, in      *)
(* every state, createEvent and createTickets fail with Forbidden for a    *)
(* registered participant whatever their arguments are, and the            *)
(* organizerId of every stored Event, Ticket and Transaction is a          *)
(* registered User of role organizer.                                      *)
(***************************************************************************)
C21_OwnedByOrganizersOnly ==
  \A v \in Variants :
    LET st == St(v)
        IsOrganizer(p) == p \in DOMAIN st.users /\ st.users[p].role = Word("organizer")
    IN /\ \A e \in DOMAIN st.events : IsOrganizer(st.events[e].organizerId)
       /\ \A t \in DOMAIN st.tickets : IsOrganizer(st.tickets[t].organizerId)
       /\ \A x \in DOMAIN st.transactions : IsOrganizer(st.transactions[x].organizerId)
       /\ \A caller \in DOMAIN st.users :
            st.users[caller].role = Word("participant") =>
              /\ \A name \in EventNames, date \in Dates, location \in Locations :
                   createEvent(v, st, caller, now, nextId,
                               [name |-> name, date |-> date, location |-> location])
                     .kind = "Forbidden"
              /\ \A quantity \in Quantities, role \in TicketRoles, price \in Prices,
                    e \in EventIds :
                   createTickets(v, st, caller, now, nextId, quantity,
                                 [role |-> role, price |-> price, eventId |-> e])
                     .kind = "Forbidden"

\* In both variants an organizer's ticket has been sold, and the participant who
\* bought it is refused a createEvent dated in the future and a createTickets
\* for the stored event.
C21_Witness ==
  \A v \in Variants : \E x \in DOMAIN transactionStorage[v] :
    LET tx == transactionStorage[v][x]
        e == ticketStorage[v][tx.ticketId].eventId
    IN /\ userStorage[v][tx.organizerId].role = Word("organizer")
       /\ createEvent(v, St(v), tx.participantId, now, nextId,
                      [name |-> Word("e"), date |-> now + 1, location |-> Word("l")])
            .kind = "Forbidden"
       /\ createTickets(v, St(v), tx.participantId, now, nextId, 1,
                        [role |-> Word("vip"), price |-> 1, eventId |-> e])
            .kind = "Forbidden"

(***************************************************************************)
(* C22: the state of a ticket can be read off the ledger.  In both         *)
(* variants, in every state, a Ticket's participantId is empty exactly     *)
(* when no Transaction names the ticket, and otherwise it is the           *)
(* participantId of the Transaction appended last for the ticket, whose    *)
(* createdAt is the ticket's updatedAt.  The same holds of the stores a    *)
(* successful buyTicket or transferTicket leaves.                          *)
(***************************************************************************)
\* The place of an identifier in the order the generator gave them out.
idNumber(id) == CHOOSE n \in 1 .. (nextId + 1) : uuidv4(n) = id

\* The transaction of ticket t that was appended last.
LastOf(transactions, t) ==
  LET mine == TransactionsOf(transactions, t)
  IN transactions[CHOOSE x \in mine : \A y \in mine : idNumber(y) <= idNumber(x)]

Derivable(st) ==
  \A t \in DOMAIN st.tickets :
    IF TransactionsOf(st.transactions, t) = {}
    THEN st.tickets[t].participantId = None
    ELSE /\ st.tickets[t].participantId
              = Some(LastOf(st.transactions, t).participantId)
         /\ st.tickets[t].updatedAt = LastOf(st.transactions, t).createdAt

C22_TicketDerivableFromLedger ==
  \A v \in Variants :
    LET st == St(v) IN
    /\ Derivable(st)
    /\ \A caller \in Principals, pay \in Pays, t \in TicketIds :
         LET out == buyTicket(v, st, caller, now, nextId, [pay |-> pay, ticketId |-> t])
         IN out.kind = "Ok" => Derivable(out.st)
    /\ \A caller \in Principals, t \in TicketIds, to \in Principals :
         LET out == transferTicket(v, st, caller, now, nextId, t, to)
         IN out.kind = "Ok" => Derivable(out.st)

\* In both variants one ticket is unsold and named by no Transaction, and
\* another, issued earlier, was bought and then transferred, its holder being
\* the recipient of the transfer.
C22_Witness ==
  \A v \in Variants :
    \E t \in DOMAIN ticketStorage[v], u \in DOMAIN ticketStorage[v] :
      /\ ticketStorage[v][u].participantId = None
      /\ TransactionsOf(transactionStorage[v], u) = {}
      /\ Cardinality(TransactionsOf(transactionStorage[v], t)) = 2
      /\ LastOf(transactionStorage[v], t).mode = "transfer"
      /\ ticketStorage[v][t].createdAt < ticketStorage[v][t].updatedAt
      /\ ticketStorage[v][t].participantId
           = Some(LastOf(transactionStorage[v], t).participantId)

(***************************************************************************)
(* C23: the ledger of a ticket is an unbroken chain of owners.  In both    *)
(* variants, in every state, of the Transactions of a ticket taken in the  *)
(* order they were appended, the first is a buy and every later one is a   *)
(* transfer whose senderId is the participantId of the one before it and   *)
(* whose participantId is not its senderId.  The same holds of the stores  *)
(* a successful buyTicket or transferTicket leaves.                        *)
(***************************************************************************)
\* The transactions of the same ticket appended before transaction x.
Before(transactions, x) ==
  {y \in TransactionsOf(transactions, transactions[x].ticketId) :
     idNumber(y) < idNumber(x)}

Chained(st) ==
  \A x \in DOMAIN st.transactions :
    LET tx == st.transactions[x]
        earlier == Before(st.transactions, x)
    IN IF earlier = {}
       THEN tx.mode = "buy"
       ELSE LET previous ==
                  st.transactions[CHOOSE y \in earlier :
                                    \A z \in earlier : idNumber(z) <= idNumber(y)]
            IN /\ tx.mode = "transfer"
               /\ tx.senderId = Some(previous.participantId)
               /\ tx.participantId # previous.participantId

C23_OwnershipChain ==
  \A v \in Variants :
    LET st == St(v) IN
    /\ Chained(st)
    /\ \A caller \in Principals, pay \in Pays, t \in TicketIds :
         LET out == buyTicket(v, st, caller, now, nextId, [pay |-> pay, ticketId |-> t])
         IN out.kind = "Ok" => Chained(out.st)
    /\ \A caller \in Principals, t \in TicketIds, to \in Principals :
         LET out == transferTicket(v, st, caller, now, nextId, t, to)
         IN out.kind = "Ok" => Chained(out.st)

\* In both variants a ticket was bought by one participant and transferred to
\* another, who can transfer it back: a chain of a buy and two transfers.
C23_Witness ==
  \A v \in Variants :
    \E x \in DOMAIN transactionStorage[v], y \in DOMAIN transactionStorage[v] :
      LET buy == transactionStorage[v][x]
          transfer == transactionStorage[v][y]
          third == transferTicket(v, St(v), transfer.participantId, now, nextId,
                                  transfer.ticketId, buy.participantId)
      IN /\ buy.mode = "buy" /\ transfer.mode = "transfer"
         /\ buy.ticketId = transfer.ticketId
         /\ Before(transactionStorage[v], y) = {x}
         /\ third.kind = "Ok"
         /\ Cardinality(TransactionsOf(third.st.transactions, buy.ticketId)) = 3

(***************************************************************************)
(* C24: the frame of a sale or transfer.  In both variants, in every       *)
(* state, a buyTicket or transferTicket that succeeds leaves the user and  *)
(* event stores and the set of ticket identifiers as they were, leaves     *)
(* every ticket but the target as it was, and changes of the target at     *)
(* most its participantId and updatedAt (its id, role, price, eventId,     *)
(* organizerId and createdAt stay).                                        *)
(***************************************************************************)
\* The stores new differ from old, outside the ledger, only in the holder and
\* updatedAt of ticket t.
OnlyHolderChanged(old, new, t) ==
  /\ new.users = old.users
  /\ new.events = old.events
  /\ DOMAIN new.tickets = DOMAIN old.tickets
  /\ \A u \in DOMAIN old.tickets \ {t} : new.tickets[u] = old.tickets[u]
  /\ t \in DOMAIN old.tickets
  /\ new.tickets[t] = [old.tickets[t] EXCEPT
                         !.participantId = new.tickets[t].participantId,
                         !.updatedAt = new.tickets[t].updatedAt]

C24_SaleFrame ==
  \A v \in Variants :
    LET st == St(v) IN
    /\ \A caller \in Principals, pay \in Pays, t \in TicketIds :
         LET out == buyTicket(v, st, caller, now, nextId, [pay |-> pay, ticketId |-> t])
         IN out.kind = "Ok" => OnlyHolderChanged(st, out.st, t)
    /\ \A caller \in Principals, t \in TicketIds, to \in Principals :
         LET out == transferTicket(v, st, caller, now, nextId, t, to)
         IN out.kind = "Ok" => OnlyHolderChanged(st, out.st, t)

\* In both variants two tickets issued earlier are stored, one held and one
\* unsold: the sale of the one and the transfer of the other both succeed now.
C24_Witness ==
  \A v \in Variants :
    \E t \in DOMAIN ticketStorage[v], u \in DOMAIN ticketStorage[v],
       to \in DOMAIN userStorage[v] :
      /\ ticketStorage[v][t].participantId # None
      /\ ticketStorage[v][u].participantId = None
      /\ ticketStorage[v][t].createdAt < now
      /\ LET holder == ticketStorage[v][t].participantId[1] IN
         /\ transferTicket(v, St(v), holder, now, nextId, t, to).kind = "Ok"
         /\ buyTicket(v, St(v), holder, now, nextId,
                      [pay |-> ticketStorage[v][u].price, ticketId |-> u]).kind = "Ok"

LaterTimes == now .. (MaxTime + 1)

C26_NoDateCheckOnSale ==
  \A v \in Variants :
    LET st == St(v)
        Participants == {p \in DOMAIN st.users : st.users[p].role = Word("participant")}
    IN \A time \in LaterTimes, t \in DOMAIN st.tickets, caller \in Participants :
         /\ (st.tickets[t].participantId = None /\ st.tickets[t].price > 0) =>
               buyTicket(v, st, caller, time, nextId,
                         [pay |-> st.tickets[t].price, ticketId |-> t]).kind = "Ok"
         /\ st.tickets[t].participantId = Some(caller) =>
              \A to \in Participants \ {caller} :
                transferTicket(v, st, caller, time, nextId, t, to).kind = "Ok"

\* In both variants a held and an unsold ticket of an event are stored, and at
\* a time after the event's date the holder still buys the one and transfers
\* the other.
C26_Witness ==
  \A v \in Variants :
    \E t \in DOMAIN ticketStorage[v], u \in DOMAIN ticketStorage[v],
       to \in DOMAIN userStorage[v], time \in LaterTimes :
      /\ ticketStorage[v][t].participantId # None
      /\ ticketStorage[v][u].participantId = None
      /\ eventStorage[v][ticketStorage[v][t].eventId].date < time
      /\ eventStorage[v][ticketStorage[v][u].eventId].date < time
      /\ LET holder == ticketStorage[v][t].participantId[1] IN
         /\ buyTicket(v, St(v), holder, time, nextId,
                      [pay |-> ticketStorage[v][u].price, ticketId |-> u]).kind = "Ok"
         /\ transferTicket(v, St(v), holder, time, nextId, t, to).kind = "Ok"

(***************************************************************************)
(* The canister on well-formed input: the runs in which no createEvent     *)
(* gives a blank name or location or the current time as date, and no      *)
(* createTickets gives a zero quantity or price or names an event whose    *)
(* date is the current time.                                               *)
(***************************************************************************)
\* A date before the current time and one after it.
WellFormedDateInputs == {now - 1, now + 1}

WellFormedPriceInputs == 1 .. MaxPrice

\* The stored events whose date is not the current time.
WellFormedEventIdInputs ==
  {e \in EventIdInputs :
     \A v \in Variants : e \in DOMAIN eventStorage[v] => eventStorage[v][e].date # now}

WellFormedCreateEvent ==
  \E caller \in Principals, name \in EventNameInputs, date \in WellFormedDateInputs,
     location \in LocationInputs :
    LET payload == [name |-> name, date |-> date, location |-> location]
    IN Commit([v \in Variants |-> createEvent(v, St(v), caller, now, nextId, payload)])

WellFormedCreateTickets ==
  \E caller \in Principals, quantity \in QuantityInputs, role \in TicketRoleInputs,
     price \in WellFormedPriceInputs, eventId \in WellFormedEventIdInputs :
    LET payload == [role |-> role, price |-> price, eventId |-> eventId]
    IN Commit([v \in Variants |->
                 createTickets(v, St(v), caller, now, nextId, quantity, payload)])

NextWellFormed ==
  \/ CreateUser
  \/ WellFormedCreateEvent
  \/ WellFormedCreateTickets
  \/ BuyTicket
  \/ TransferTicket
  \/ GetMe
  \/ GetEvents
  \/ GetTicketsByEvent
  \/ GetMyTickets
  \/ GetMyTransactions
  \/ Tick

SpecWellFormed == Init /\ [][NextWellFormed]_vars

(***************************************************************************)
(* C27: the two variants are equivalent on well-formed input.  In every    *)
(* state of a run on well-formed input the four stores of index.ts equal   *)
(* those of part_000, and every call with well-formed arguments (names and *)
(* locations not blank, quantity and price positive, no date compared with *)
(* the clock equal to the current time; roles, identifiers and payments of *)
(* any kind) succeeds in one variant exactly when it succeeds in the       *)
(* other and leaves equal stores; the error kinds may differ.              *)
(***************************************************************************)
\* Two outcomes of the same call: both succeed or both fail, with equal stores.
Agree(a, b) == (a.kind = "Ok") = (b.kind = "Ok") /\ a.st = b.st

\* The outcomes of one call in the two variants agree.
BothAgree(outcome(_)) == Agree(outcome("index"), outcome("part_000"))

C27_VariantsAgree ==
  /\ St("index") = St("part_000")
  /\ \A caller \in Principals :
       /\ \A name \in {n \in Names : ~isStringEmpty(n)}, role \in UserRoles :
            LET call(v) == createUser(v, St(v), caller, now,
                                      [name |-> name, role |-> role])
            IN BothAgree(call)
       /\ \A name \in {n \in EventNames : ~isStringEmpty(n)},
             location \in {l \in Locations : ~isStringEmpty(l)},
             date \in Dates \ {now} :
            LET call(v) == createEvent(v, St(v), caller, now, nextId,
                             [name |-> name, date |-> date, location |-> location])
            IN BothAgree(call)
       /\ \A quantity \in Quantities \ {0}, price \in Prices \ {0},
             role \in TicketRoles,
             e \in {i \in EventIds :
                      \A v \in Variants :
                        i \in DOMAIN eventStorage[v] => eventStorage[v][i].date # now} :
            LET call(v) == createTickets(v, St(v), caller, now, nextId, quantity,
                             [role |-> role, price |-> price, eventId |-> e])
            IN BothAgree(call)
       /\ \A pay \in Pays, t \in TicketIds :
            LET call(v) == buyTicket(v, St(v), caller, now, nextId,
                                     [pay |-> pay, ticketId |-> t])
            IN BothAgree(call)
       /\ \A t \in TicketIds, to \in Principals :
            LET call(v) == transferTicket(v, St(v), caller, now, nextId, t, to)
            IN BothAgree(call)
       /\ LET me(v) == getMe(v, St(v), caller)
              tickets(v) == getMyTickets(v, St(v), caller)
              transactions(v) == getMyTransactions(v, St(v), caller)
          IN BothAgree(me) /\ BothAgree(tickets) /\ BothAgree(transactions)
  /\ LET call(v) == getEvents(v, St(v)) IN BothAgree(call)
  /\ \A e \in EventIds :
       LET call(v) == getTicketsByEvent(v, St(v), e) IN BothAgree(call)

\* Both variants have recorded a sale and a transfer, a second ticket is
\* unsold, and the transfer of the unsold ticket by the holder of the other
\* fails in both, as Forbidden in index.ts and as InternalError in part_000.
C27_Witness ==
  /\ \A v \in Variants :
       \E x \in DOMAIN transactionStorage[v] : transactionStorage[v][x].mode = "transfer"
  /\ \E u \in DOMAIN ticketStorage["index"], caller \in DOMAIN userStorage["index"],
        to \in DOMAIN userStorage["index"] :
       /\ ticketStorage["part_000"][u].participantId = None
       /\ transferTicket("index", St("index"), caller, now, nextId, u, to).kind
            = "Forbidden"
       /\ transferTicket("part_000", St("part_000"), caller, now, nextId, u, to).kind
            = "InternalError"

====
